---- MODULE Spec2Model ----
(***************************************************************************)
(* A model of ensmingera/relayenforce.                                     *)
(*                                                                         *)
(*   Spec     the job of relayenforce.py: TargetDevice construction        *)
(*            (interface scan, relay extraction) and main's reconciliation *)
(*            of the configured DHCP relays against the authorized list.   *)
(*   DevSpec  the CiscoDevice library of CiscoDevice.py: construction and  *)
(*            any sequence of calls of its inspector and config-mode       *)
(*            methods.                                                     *)
(*   ScanSpec the interface scan and relay extraction of one device, by    *)
(*            TargetDevice's constructor or by CiscoDevice's methods.      *)
(*   VerSpec  CiscoDevice construction over the version strings of the     *)
(*            device record, for the version patterns of each family.      *)
(*                                                                         *)
(* Text is modelled as a sequence of one-character strings, so that        *)
(* splitting the authorized list on its delimiter is computed and not      *)
(* assumed.  A command handed to the Command Channel is a record           *)
(* [text, intf, addr]: the literal parts of the command line in the order  *)
(* they are concatenated, the interface name and the address it carries.   *)
(***************************************************************************)
EXTENDS Integers, Sequences, FiniteSets, TLC

VARIABLES
    \* ---- relayenforce.py: job inputs and the device behind the session
    sysDescr,        \* DeviceSysDescr, as the set of markers it contains
    dry_run,         \* $dry_run Script-Variable
    relay_list_key,  \* $relay_list_key Script-Variable
    upIntfs,         \* rows of the device's "show ip int br" answer
    runcfg,          \* device: interface -> its configuration lines now
    \* ---- relayenforce.py: TargetDevice and main
    pc,              \* position of main
    os_type,         \* TargetDevice.os_type
    active_intfs,    \* TargetDevice.active_intfs
    relay_intfs,     \* TargetDevice.relay_intfs (keys 0..n-1 as 1..n)
    relay_list,      \* main: what get_list_value returned
    auth_relays,     \* main: auth_relays
    bad_relays,      \* main: bad_relays of the last interface looked at
    idx,             \* main: position of the loop over relay_intfs
    sent,            \* commands handed to dis.send_command, in order
    logged,          \* commands only printed by the dry run, in order
    lookups,         \* number of dis.get_list_value calls
    status,          \* "running", "exit0", "exit1" or "raised"
    \* ---- CiscoDevice.py: the device record behind a CiscoDevice
    DeviceSysDescr,  \* device.DeviceSysDescr, as the set of markers it contains
    DeviceVersion,   \* device.DeviceVersion, as its characters
    \* ---- CiscoDevice.py: CiscoDevice
    dpc,             \* "new", "ready" (constructed) or "failed" (__init__ raised)
    verinfo,
    os,
    asa_multi_context,
    asa_admin_context,
    asa_admin_context_name,
    nxos_aci_mode,
    in_config_mode,
    platform,
    current_system_image,
    current_system_image_fs,
    system_fs,
    system_fs_info,
    iosxe_boot_mode,
    iosxe_build,
    iosxe_sdwan,     \* iosxe_sdwan["mode"]
    responses,       \* get_system_image_info: raw_output, bldplat and rp_base
                     \* as the last call received them
    dsent,           \* commands handed to dis.send_command, in order
    calls            \* the method calls made so far: [op, res]

jobVars == <<sysDescr, dry_run, relay_list_key, upIntfs, runcfg, pc, os_type,
             active_intfs, relay_intfs, relay_list, auth_relays, bad_relays,
             idx, sent, logged, lookups, status>>

ctxVars == <<verinfo, os, asa_multi_context, asa_admin_context, asa_admin_context_name,
             nxos_aci_mode>>

imageVars == <<platform, current_system_image, current_system_image_fs,
               iosxe_boot_mode, iosxe_build, iosxe_sdwan, responses>>

fsVars == <<system_fs, system_fs_info>>

devVars == <<DeviceSysDescr, DeviceVersion, dpc, ctxVars, in_config_mode, imageVars, fsVars,
             dsent, calls>>

vars == <<jobVars, devVars>>

-----------------------------------------------------------------------------
(* Bounds of the model *)

\* most rows in the device's interface listing
MaxIntfs == 2
\* most relay lines in one interface's configuration
MaxRelays == 2
\* most characters in the authorized list's cell
MaxListLen == 3
\* most method calls on one CiscoDevice
MaxCalls == 3
\* most rows in the device's file system listing
MaxFsRows == 2

-----------------------------------------------------------------------------
(* Values *)

None == "None"

IntfNames == {"Vlan10", "Vlan20"}

\* characters of an address and the delimiter of the list cell
Digits == {"1", "2"}
Delim == ","
Chars == Digits \cup {Delim}

\* the addresses a device can have configured (the relay regex only matches
\* digit groups, never the empty string or the delimiter)
ConfAddrs == {<<"1">>, <<"2">>}

SeqsUpTo(S, n) == UNION {[1..k -> S] : k \in 0..n}

\* the cells the List Store can hold for the key
RelayLists == SeqsUpTo(Chars, MaxListLen)

NOTFOUND == <<"NOTFOUND">>

\* a name that is not bound yet
Unbound == <<"unbound">>

DefaultKey == "Row ID Key from DHCP Relay List"
Keys == {DefaultKey, "list_row_1"}

DryRunValues == {"on", "off", ""}

\* raised: the send_command call of this command raised
Cmd(text, intf, addr) == [text |-> text, intf |-> intf, addr |-> addr, raised |-> FALSE]

\* a configuration line under "interface <name>": a keyword and an address
Line(kw, addr) == [kw |-> kw, addr |-> addr]

Range(s) == {s[i] : i \in DOMAIN s}

\* what a run of send_command calls can do: all of cmds go through (ok), or
\* the n-th call raises and nothing after it is handed to the channel
SendOutcomes(cmds) ==
    {[n |-> Len(cmds), ok |-> TRUE]} \cup {[n |-> k, ok |-> FALSE] : k \in 1..Len(cmds)}

\* a channel that is handed the rest of the run after a call raised
Handed_KeepsGoing(cmds, o) ==
    IF o.ok THEN cmds ELSE [cmds EXCEPT ![o.n].raised = TRUE]

\* the commands handed to the channel in outcome o of sending cmds
Handed(cmds, o) ==
    IF o.ok THEN cmds
    ELSE SubSeq(cmds, 1, o.n - 1) \o <<[cmds[o.n] EXCEPT !.raised = TRUE]>>

-----------------------------------------------------------------------------
(* relayenforce.py: TargetDevice *)

\* TargetDevice.__init__: the syntax family from the system description
OsTypeOf(descr) ==
    IF "Adaptive Security" \in descr THEN "ASA"
    ELSE IF "NX-OS" \in descr THEN "NXOS"
    ELSE "IOS"

\* the relay keyword of a family (process_relay_interfaces and main agree)
RelayCmdPrefix(family) ==
    IF family = "ASA" THEN "dhcprelay server "
    ELSE IF family = "NXOS" THEN "ip dhcp relay address "
    ELSE "ip helper-address "

\* get_active_interfaces: the show command of a family
ActiveIntfsCmd(family) ==
    IF family = "ASA" THEN Cmd(<<"show ", "int ip br | ex ^Interface|Internal">>, "", <<>>)
    ELSE IF family = "NXOS" THEN Cmd(<<"show ", "ip int br | ex \"(^$|Interface|down)\"">>, "", <<>>)
    ELSE Cmd(<<"show ", "ip int br | ex (Proto|unassign|down|Any|NVI)">>, "", <<>>)

\* process_relay_interfaces: "show run interface " + intf_id
ShowRunCmd(intf) == Cmd(<<"show run interface ">>, intf, <<>>)

\* the relay addresses on the lines of one interface section, in line order:
\* a line counts when it carries the family's keyword
RelayList(lines, family) ==
    LET hits == SelectSeq(lines, LAMBDA l : l.kw = RelayCmdPrefix(family))
    IN  [i \in 1..Len(hits) |-> hits[i].addr]

\* process_relay_interfaces over the interfaces intfs, appending to acc: an
\* entry is stored under the next key only when the relay list is not empty
RECURSIVE ProcessRelayInterfaces(_, _, _, _)
ProcessRelayInterfaces(intfs, cfg, family, acc) ==
    IF intfs = <<>> THEN acc
    ELSE LET relaylist == RelayList(cfg[Head(intfs)], family)
             next == IF Len(relaylist) > 0
                     THEN Append(acc, [name |-> Head(intfs), relays |-> relaylist])
                     ELSE acc
         IN  ProcessRelayInterfaces(Tail(intfs), cfg, family, next)

\* TargetDevice.enter_global_config
EnterGlobalConfigCmds == <<Cmd(<<"configure terminal">>, "", <<>>)>>

\* TargetDevice.exit_global_config(commit_config)
ExitGlobalConfigCmds(commit_config) ==
    <<Cmd(<<"end">>, "", <<>>)>> \o
    (IF commit_config THEN <<Cmd(<<"copy running-config startup-config\r\r">>, "", <<>>)>>
     ELSE <<>>)

-----------------------------------------------------------------------------
(* relayenforce.py: main *)

\* str.split(','): the pieces between the delimiters, empty pieces included
RECURSIVE Split(_)
Split(s) ==
    IF s = <<>> THEN << <<>> >>
    ELSE IF Head(s) = Delim THEN << <<>> >> \o Split(Tail(s))
    ELSE LET r == Split(Tail(s))
         IN  << <<Head(s)>> \o Head(r) >> \o Tail(r)

\* main: global configuration is entered, and left, when the switch is "off"
EntersConfig(dr) == dr = "off"

\* a dry run that prints nothing and sends everything
OnlyPrints_Never(dr) == FALSE

\* main: a command of the loop is printed and not sent when the switch is "on"
OnlyPrints(dr) == dr = "on"

\* a loop that stops at the first relay it keeps for removal
BadRelays_FirstOnly(relays, auth) ==
    LET bad == SelectSeq(relays, LAMBDA relay : relay \notin Range(auth))
    IN  IF bad = <<>> THEN <<>> ELSE <<Head(bad)>>

\* a loop whose membership test is inverted
BadRelays_Inverted(relays, auth) ==
    SelectSeq(relays, LAMBDA relay : relay \in Range(auth))

\* the loop over the configured relays: those not in the list, per occurrence
BadRelays(relays, auth) ==
    SelectSeq(relays, LAMBDA relay : relay \notin Range(auth))

\* "interface " + name
InterfaceCmd(name) == Cmd(<<"interface ">>, name, <<>>)

\* "no " + relay_cmd_prefix + badrelay
RemoveCmd(family, badrelay) == Cmd(<<"no ", RelayCmdPrefix(family)>>, "", badrelay)

\* relay_cmd_prefix + " " + goodrelay
AddCmd(family, goodrelay) == Cmd(<<RelayCmdPrefix(family), " ">>, "", goodrelay)

\* a loop body that adds before it removes
IntfCmds_AddFirst(family, entry, auth) ==
    LET bad == SelectSeq(entry.relays, LAMBDA relay : relay \notin Range(auth))
    IN  <<InterfaceCmd(entry.name)>>
        \o [i \in 1..Len(auth) |-> AddCmd(family, auth[i])]
        \o [i \in 1..Len(bad) |-> RemoveCmd(family, bad[i])]

\* a loop body that sends no addition
IntfCmds_NoAdditions(family, entry, auth) ==
    LET bad == SelectSeq(entry.relays, LAMBDA relay : relay \notin Range(auth))
    IN  <<InterfaceCmd(entry.name)>> \o [i \in 1..Len(bad) |-> RemoveCmd(family, bad[i])]

\* a loop body that sends no removal
IntfCmds_NoRemovals(family, entry, auth) ==
    <<InterfaceCmd(entry.name)>> \o [i \in 1..Len(auth) |-> AddCmd(family, auth[i])]

\* the commands of one pass of the loop body, in the order they are issued
IntfCmds(family, entry, auth) ==
    LET bad == BadRelays(entry.relays, auth)
    IN  <<InterfaceCmd(entry.name)>>
        \o [i \in 1..Len(bad) |-> RemoveCmd(family, bad[i])]
        \o [i \in 1..Len(auth) |-> AddCmd(family, auth[i])]

\* an address the device accepts in a relay command: digits, at least one
ValidAddr(addr) == addr # <<>> /\ \A i \in DOMAIN addr : addr[i] \in Digits

\* the device behind send_command: the lines of the selected interface after
\* command c. A removal deletes the relay lines with its address, an addition
\* appends a relay line when the address is valid and not there yet; a
\* command whose send_command raised changes nothing
DeviceApply(lines, family, c) ==
    IF c.raised THEN lines
    ELSE IF c.text = <<"no ", RelayCmdPrefix(family)>>
    THEN SelectSeq(lines, LAMBDA l : ~(l.kw = RelayCmdPrefix(family) /\ l.addr = c.addr))
    ELSE IF c.text = <<RelayCmdPrefix(family), " ">>
    THEN IF ValidAddr(c.addr)
            /\ \A i \in DOMAIN lines :
                  ~(lines[i].kw = RelayCmdPrefix(family) /\ lines[i].addr = c.addr)
         THEN Append(lines, Line(RelayCmdPrefix(family), c.addr))
         ELSE lines
    ELSE lines

RECURSIVE DeviceApplyAll(_, _, _)
DeviceApplyAll(lines, family, cmds) ==
    IF cmds = <<>> THEN lines
    ELSE DeviceApplyAll(DeviceApply(lines, family, Head(cmds)), family, Tail(cmds))

\* the device's configuration after the commands of one pass of the loop,
\* sent in configuration mode: the first selects the interface
DeviceAfter(cfg, family, cmds) ==
    IF cmds = <<>> \/ Head(cmds).raised THEN cfg
    ELSE [cfg EXCEPT ![Head(cmds).intf] = DeviceApplyAll(@, family, Tail(cmds))]

\* the configurations an interface of a device of a family can have: its
\* address line, then at most MaxRelays relay lines
IntfConfigs(family) ==
    {<<Line("ip address ", <<"9">>)>> \o [i \in 1..Len(rs) |-> Line(RelayCmdPrefix(family), rs[i])] :
        rs \in SeqsUpTo(ConfAddrs, MaxRelays)}

JobInit ==
    /\ sysDescr \in {{"Adaptive Security"}, {"NX-OS"}, {"IOS"}}
    /\ dry_run \in DryRunValues
    /\ relay_list_key \in Keys
    /\ upIntfs \in SeqsUpTo(IntfNames, MaxIntfs)
    /\ runcfg \in [IntfNames -> IntfConfigs(OsTypeOf(sysDescr))]
    /\ pc = "new"
    /\ os_type = None
    /\ active_intfs = <<>>
    /\ relay_intfs = <<>>
    /\ relay_list = Unbound
    /\ auth_relays = <<>>
    /\ bad_relays = <<>>
    /\ idx = 0
    /\ sent = <<>>
    /\ logged = <<>>
    /\ lookups = 0
    /\ status = "running"

\* the job's variables when only the library is exercised
JobIdle ==
    /\ sysDescr = {}
    /\ dry_run = ""
    /\ relay_list_key = DefaultKey
    /\ upIntfs = <<>>
    /\ runcfg = [i \in IntfNames |-> <<>>]
    /\ pc = "idle"
    /\ os_type = None
    /\ active_intfs = <<>>
    /\ relay_intfs = <<>>
    /\ relay_list = Unbound
    /\ auth_relays = <<>>
    /\ bad_relays = <<>>
    /\ idx = 0
    /\ sent = <<>>
    /\ logged = <<>>
    /\ lookups = 0
    /\ status = "running"

\* exit(n), or an exception leaving main
Leave(how) ==
    /\ pc' = "done"
    /\ status' = how

\* TargetDevice(easy, easy.get_device()): classify the family, scan the
\* active interfaces, extract the relays of each
Construct ==
    /\ pc = "new"
    /\ LET family == OsTypeOf(sysDescr)
           cmds == <<ActiveIntfsCmd(family)>> \o [i \in 1..Len(upIntfs) |-> ShowRunCmd(upIntfs[i])]
       IN  \E o \in SendOutcomes(cmds) :
             /\ os_type' = family
             /\ sent' = sent \o Handed(cmds, o)
             /\ IF o.ok
                THEN /\ active_intfs' = upIntfs
                     /\ relay_intfs' = ProcessRelayInterfaces(upIntfs, runcfg, family, relay_intfs)
                     /\ pc' = "constructed"
                     /\ status' = status
                ELSE \* the o.n-th command raised: the answers to the ones
                     \* before it were processed
                     /\ active_intfs' = IF o.n >= 2 THEN upIntfs ELSE active_intfs
                     /\ relay_intfs' = ProcessRelayInterfaces(
                                           SubSeq(upIntfs, 1, o.n - 2), runcfg, family, relay_intfs)
                     /\ Leave("raised")
    /\ UNCHANGED <<sysDescr, dry_run, relay_list_key, upIntfs, runcfg, relay_list,
                   auth_relays, bad_relays, idx, logged, lookups>>
    /\ UNCHANGED devVars

\* main: no interface has a relay
EarlyExit ==
    /\ pc = "constructed"
    /\ Len(relay_intfs) = 0
    /\ Leave("exit0")
    /\ UNCHANGED <<sysDescr, dry_run, relay_list_key, upIntfs, runcfg, os_type,
                   active_intfs, relay_intfs, relay_list, auth_relays, bad_relays,
                   idx, sent, logged, lookups>>
    /\ UNCHANGED devVars

\* main: the key is the default of the Script-Variable
MissingKey ==
    /\ pc = "constructed"
    /\ Len(relay_intfs) # 0
    /\ relay_list_key = DefaultKey
    /\ Leave("exit1")
    /\ UNCHANGED <<sysDescr, dry_run, relay_list_key, upIntfs, runcfg, os_type,
                   active_intfs, relay_intfs, relay_list, auth_relays, bad_relays,
                   idx, sent, logged, lookups>>
    /\ UNCHANGED devVars

\* a lookup made before relay_intfs is tested for emptiness
Lookup_BeforeEmptyTest ==
    /\ pc = "constructed"
    /\ relay_list_key # DefaultKey
    /\ lookups' = lookups + 1
    /\ \E answer \in RelayLists \cup {NOTFOUND} :
          /\ relay_list' = answer
          /\ IF answer = NOTFOUND
             THEN /\ Leave("exit1")
                  /\ UNCHANGED auth_relays
             ELSE /\ auth_relays' = Split(answer)
                  /\ pc' = "enter"
                  /\ status' = status
    /\ UNCHANGED <<sysDescr, dry_run, relay_list_key, upIntfs, runcfg, os_type,
                   active_intfs, relay_intfs, bad_relays, idx, sent, logged>>
    /\ UNCHANGED devVars

\* a lookup whose answer is never compared with the sentinel
Lookup_NoSentinelTest ==
    /\ pc = "constructed"
    /\ Len(relay_intfs) # 0
    /\ relay_list_key # DefaultKey
    /\ lookups' = lookups + 1
    /\ \E answer \in RelayLists \cup {NOTFOUND} :
          /\ relay_list' = answer
          /\ auth_relays' = Split(answer)
          /\ pc' = "enter"
          /\ status' = status
    /\ UNCHANGED <<sysDescr, dry_run, relay_list_key, upIntfs, runcfg, os_type,
                   active_intfs, relay_intfs, bad_relays, idx, sent, logged>>
    /\ UNCHANGED devVars

\* main: get_list_value for the key; the List Store answers the sentinel or
\* the cell, which is split on the delimiter
Lookup ==
    /\ pc = "constructed"
    /\ Len(relay_intfs) # 0
    /\ relay_list_key # DefaultKey
    /\ lookups' = lookups + 1
    /\ \E answer \in RelayLists \cup {NOTFOUND} :
          /\ relay_list' = answer
          /\ IF answer = NOTFOUND
             THEN /\ Leave("exit1")
                  /\ UNCHANGED auth_relays
             ELSE /\ auth_relays' = Split(answer)
                  /\ pc' = "enter"
                  /\ status' = status
    /\ UNCHANGED <<sysDescr, dry_run, relay_list_key, upIntfs, runcfg, os_type,
                   active_intfs, relay_intfs, bad_relays, idx, sent, logged>>
    /\ UNCHANGED devVars

\* main: enter global configuration when the dry run is off
EnterConfig ==
    /\ pc = "enter"
    /\ idx' = 1
    /\ IF EntersConfig(dry_run)
       THEN \E o \in SendOutcomes(EnterGlobalConfigCmds) :
              /\ sent' = sent \o Handed(EnterGlobalConfigCmds, o)
              /\ IF o.ok THEN pc' = "loop" /\ status' = status
                         ELSE Leave("raised")
       ELSE /\ pc' = "loop"
            /\ UNCHANGED <<sent, status>>
    /\ UNCHANGED <<sysDescr, dry_run, relay_list_key, upIntfs, runcfg, os_type,
                   active_intfs, relay_intfs, relay_list, auth_relays, bad_relays,
                   logged, lookups>>
    /\ UNCHANGED devVars

\* main: one pass of the loop over relay_intfs: find the relays to remove,
\* then the interface command, the removals and the additions, each sent,
\* or only printed when the dry run is on
ProcessIntf ==
    /\ pc = "loop"
    /\ idx <= Len(relay_intfs)
    /\ LET entry == relay_intfs[idx]
           cmds == IntfCmds(os_type, entry, auth_relays)
       IN  /\ bad_relays' = BadRelays(entry.relays, auth_relays)
           /\ IF OnlyPrints(dry_run)
              THEN /\ logged' = logged \o cmds
                   /\ idx' = idx + 1
                   /\ UNCHANGED <<sent, pc, status, runcfg>>
              ELSE \E o \in SendOutcomes(cmds) :
                     /\ sent' = sent \o Handed(cmds, o)
                     /\ runcfg' = IF EntersConfig(dry_run)
                                  THEN DeviceAfter(runcfg, os_type, Handed(cmds, o))
                                  ELSE runcfg
                     /\ UNCHANGED logged
                     /\ IF o.ok THEN idx' = idx + 1 /\ UNCHANGED <<pc, status>>
                                ELSE UNCHANGED idx /\ Leave("raised")
    /\ UNCHANGED <<sysDescr, dry_run, relay_list_key, upIntfs, os_type,
                   active_intfs, relay_intfs, relay_list, auth_relays, lookups>>
    /\ UNCHANGED devVars

\* main: after the loop, leave configuration mode and save when the dry run
\* is off; then the job is a success
ExitConfig ==
    /\ pc = "loop"
    /\ idx > Len(relay_intfs)
    /\ IF EntersConfig(dry_run)
       THEN \E o \in SendOutcomes(ExitGlobalConfigCmds(TRUE)) :
              /\ sent' = sent \o Handed(ExitGlobalConfigCmds(TRUE), o)
              /\ IF o.ok THEN Leave("exit0") ELSE Leave("raised")
       ELSE /\ Leave("exit0")
            /\ UNCHANGED sent
    /\ UNCHANGED <<sysDescr, dry_run, relay_list_key, upIntfs, runcfg, os_type,
                   active_intfs, relay_intfs, relay_list, auth_relays, bad_relays,
                   idx, logged, lookups>>
    /\ UNCHANGED devVars

JobNext ==
    \/ Construct
    \/ EarlyExit
    \/ MissingKey
    \/ Lookup
    \/ EnterConfig
    \/ ProcessIntf
    \/ ExitConfig

-----------------------------------------------------------------------------
(* CiscoDevice.py: values *)

\* file system names, as the pieces they are spelled from: "flash",
\* "bootflash", "nvram"
FsFlash == <<"flash">>
FsBootflash == <<"boot", "flash">>
FsNvram == <<"nvram">>

\* a name that is None or empty: "not name" holds of it
NoFs == <<>>

\* a name the pattern did not find in the answer
NoMatchFs == <<"nomatch">>
NoMatch == "nomatch"

\* the file systems an image can be reported on
ImageFsNames == {FsFlash, FsBootflash}

\* the image file names a device can report
Images == {"c3560cx-universalk9.bin", "isr4300-ucmk9.bin", "packages.conf"}

\* str.endswith(".conf")
EndsWithConf(image) == image = "packages.conf"

\* "a in b" on names: a occurs in b as a run of consecutive pieces
Contains(b, a) ==
    \E i \in 1..(Len(b) - Len(a) + 1) : SubSeq(b, i, i + Len(a) - 1) = a

\* what the image patterns find in the answer to the image command: the
\* file system, and the file name when the file system was found
ImageResponses ==
    {[fs |-> NoMatchFs, image |-> NoMatch]}
    \cup [fs : ImageFsNames, image : Images \cup {NoMatch}]

\* what the build and platform patterns find in a manifest
Manifests == [build : BOOLEAN, plat : BOOLEAN]

\* answers to "show version | include operating": nothing, the line as the
\* device prints it, and a line that begins with the word the pattern wants
SdwanResponses == {"", "Router operating mode: Autonomous", "operating mode: Controller-Managed"}

\* rows of "show file system": the default marker, the free bytes column
\* ("-" when the device shows none) and the prefix
FsRows == [star : BOOLEAN, free : {"-", "50"}, name : {FsFlash, FsBootflash, FsNvram}]
FsTables == SeqsUpTo(FsRows, MaxFsRows)

\* the answers a get_system_image_info call has received: each is the empty
\* sequence until the command was answered
Responses(raw_output, bldplat, rp_base) ==
    [raw_output |-> raw_output, bldplat |-> bldplat, rp_base |-> rp_base]
NoResponses == Responses(<<>>, <<>>, <<>>)

\* the system descriptions a broker can hold, as the set of words they
\* contain; some carry the words of several families
DevDescrs ==
    {{"Adaptive Security"}, {"NX-OS"}, {"NX-OS", "aci"}, {"IOS-XE"}, {"IOS"}, {},
     {"Catalyst"}, {"CAT3K_"}, {"LINUX_IOSD"}, {"IOS XE", "NX-OS"},
     {"Adaptive Security", "NX-OS", "IOSXE"}}

\* "marker in description": the marker is a substring of one of the words
MarkerIn(marker, descr) ==
    \E word \in descr :
        \/ word = marker
        \/ marker = "IOS" /\ word \in {"IOSXE", "IOS-XE", "IOS XE", "LINUX_IOSD"}

\* the outcome of one method call: the commands it handed to the channel,
\* the exception it left with ("" when it returned) and the attributes after
Raise(cmds, exc, attrs) == [sent |-> cmds, exc |-> exc, attrs |-> attrs]
Return(cmds, attrs) == [sent |-> cmds, exc |-> "", attrs |-> attrs]

\* cmds with the n-th one raising
Failing(cmds, n) == Handed(cmds, [n |-> n, ok |-> FALSE])

-----------------------------------------------------------------------------
(* CiscoDevice.py: the version patterns *)

\* the characters of the model, by the classes the patterns use
DigitSeq == <<"0", "1", "2", "3", "4", "5", "6", "7", "8", "9">>
DigitChars == Range(DigitSeq)
UpperChars == {"E", "S"}
LowerChars == {"a"}
AlnumChars == DigitChars \cup UpperChars \cup LowerChars
WordChars == AlnumChars \cup {"_"}
PunctChars == {"-", ".", "(", ")"}
NonSpaceChars == WordChars \cup PunctChars
AnyChars == NonSpaceChars \cup {" "}

\* int(): the number a run of digits spells
RECURSIVE IntOf(_)
IntOf(digits) ==
    IF digits = <<>> THEN 0
    ELSE IntOf(SubSeq(digits, 1, Len(digits) - 1)) * 10
         + (CHOOSE n \in 0..9 : DigitSeq[n + 1] = digits[Len(digits)])

\* an element of a pattern: a character class taken at least min times, and
\* as often as it can be when many, once at most otherwise
One(cls) == [cls |-> cls, min |-> 1, many |-> FALSE]
Opt(cls) == [cls |-> cls, min |-> 0, many |-> FALSE]
Plus(cls) == [cls |-> cls, min |-> 1, many |-> TRUE]
Star(cls) == [cls |-> cls, min |-> 0, many |-> TRUE]

\* r'(\d)-?(\d+)-?(\d)-(\d+)?'
AsaPattern ==
    <<One(DigitChars), Opt({"-"}), Plus(DigitChars), Opt({"-"}), One(DigitChars),
      One({"-"}), Star(DigitChars)>>

\* r'(\d+)\.(\d+)\((\d+)(\w+)?\)(.*)'
NxosPattern ==
    <<Plus(DigitChars), One({"."}), Plus(DigitChars), One({"("}), Plus(DigitChars),
      Star(WordChars), One({")"}), Star(AnyChars)>>

\* r'(\d+)\.(\d+)\.(\d+)\.?([a-zA-Z0-9]+)\.?(\S+)?'
IosxePattern ==
    <<Plus(DigitChars), One({"."}), Plus(DigitChars), One({"."}), Plus(DigitChars),
      Opt({"."}), Plus(AlnumChars), Opt({"."}), Star(NonSpaceChars)>>

\* r'(\d+)\.(\d+)\(([a-zA-Z0-9]+)\)([A-Z]+)([a-z0-9]+)?'
IosPattern ==
    <<Plus(DigitChars), One({"."}), Plus(DigitChars), One({"("}), Plus(AlnumChars),
      One({")"}), Plus(UpperChars), Star(LowerChars \cup DigitChars)>>

\* the length of the run of characters of cls at position p of v
RECURSIVE RunLen(_, _, _)
RunLen(v, p, cls) ==
    IF p > Len(v) THEN 0
    ELSE IF v[p] \notin cls THEN 0
    ELSE 1 + RunLen(v, p + 1, cls)

Fail == <<-1>>

\* the pattern from its k-th element on, matched at position p: how many
\* characters each element takes, greedy first, giving back one at a time
RECURSIVE MatchFrom(_, _, _, _)
RECURSIVE MatchTaking(_, _, _, _, _)
MatchFrom(pat, k, v, p) ==
    IF k > Len(pat) THEN <<>>
    ELSE LET run == RunLen(v, p, pat[k].cls)
             most == IF pat[k].many THEN run ELSE IF run > 1 THEN 1 ELSE run
         IN  MatchTaking(pat, k, v, p, most)

MatchTaking(pat, k, v, p, n) ==
    IF n < pat[k].min THEN Fail
    ELSE LET rest == MatchFrom(pat, k + 1, v, p + n)
         IN  IF rest # Fail THEN <<n>> \o rest
             ELSE MatchTaking(pat, k, v, p, n - 1)

NoSearchMatch == [start |-> 0, counts |-> <<>>]

\* re.search: the match at the leftmost position that has one
RECURSIVE SearchFrom(_, _, _)
SearchFrom(pat, v, s) ==
    IF s > Len(v) + 1 THEN NoSearchMatch
    ELSE LET counts == MatchFrom(pat, 1, v, s)
         IN  IF counts # Fail THEN [start |-> s, counts |-> counts]
             ELSE SearchFrom(pat, v, s + 1)

Search(pat, v) == SearchFrom(pat, v, 1)

\* what the k-th element of the pattern took in match m of v
RECURSIVE Offset(_, _)
Offset(counts, k) == IF k = 0 THEN 0 ELSE counts[k] + Offset(counts, k - 1)
Piece(v, m, k) ==
    SubSeq(v, m.start + Offset(m.counts, k - 1), m.start + Offset(m.counts, k) - 1)

\* a field of verinfo: unset, or the value
Unset == <<>>
IntField(digits) == <<IntOf(digits)>>
\* match.group(n) of an optional group: None when it took nothing
StrField(text) == text

\* verinfo of an ASA
AsaVerinfo(version) ==
    LET m == Search(AsaPattern, version)
    IN  IF m = NoSearchMatch
        THEN [maj |-> Unset, min |-> Unset, maint |-> Unset, rebld |-> Unset]
        ELSE [maj |-> IntField(Piece(version, m, 1)),
              min |-> IntField(Piece(version, m, 3)),
              maint |-> IntField(Piece(version, m, 5)),
              rebld |-> IF Piece(version, m, 7) # <<>>
                        THEN IntField(Piece(version, m, 7)) ELSE Unset]

\* verinfo of an NX-OS device
NxosVerinfo(version) ==
    LET m == Search(NxosPattern, version)
    IN  IF m = NoSearchMatch
        THEN [maj |-> Unset, min |-> Unset, maint |-> Unset, rebld |-> Unset]
        ELSE [maj |-> IntField(Piece(version, m, 1)),
              min |-> IntField(Piece(version, m, 3)),
              maint |-> IntField(Piece(version, m, 5)),
              rebld |-> StrField(Piece(version, m, 6))]

\* verinfo of an IOS-XE device
IosxeVerinfo(version) ==
    LET m == Search(IosxePattern, version)
        unset == [maj |-> Unset, rel |-> Unset, rebld |-> Unset, spcrel |-> Unset,
                  train |-> Unset, iosd |-> Unset]
    IN  IF m = NoSearchMatch THEN unset
        ELSE LET maj == IntOf(Piece(version, m, 1))
                 nums == [unset EXCEPT !.maj = <<maj>>,
                                       !.rel = IntField(Piece(version, m, 3)),
                                       !.rebld = IntField(Piece(version, m, 5))]
             IN  IF maj >= 16 THEN [nums EXCEPT !.spcrel = StrField(Piece(version, m, 7))]
                 ELSE IF maj = 3
                 THEN [nums EXCEPT !.train = StrField(Piece(version, m, 7)),
                                   !.iosd = StrField(Piece(version, m, 9))]
                 ELSE nums

\* verinfo of an IOS device
IosVerinfo(version) ==
    LET m == Search(IosPattern, version)
    IN  IF m = NoSearchMatch
        THEN [maj |-> Unset, min |-> Unset, feat |-> Unset, type |-> Unset,
              maint |-> Unset]
        ELSE [maj |-> IntField(Piece(version, m, 1)),
              min |-> IntField(Piece(version, m, 3)),
              feat |-> StrField(Piece(version, m, 5)),
              type |-> StrField(Piece(version, m, 7)),
              maint |-> StrField(Piece(version, m, 8))]

\* verinfo as the constructor leaves it: the empty dict when no family
\* was found
VerinfoOf(family, version) ==
    IF family = "ASA" THEN AsaVerinfo(version)
    ELSE IF family = "NX-OS" THEN NxosVerinfo(version)
    ELSE IF family = "IOS-XE" THEN IosxeVerinfo(version)
    ELSE IF family = "IOS" THEN IosVerinfo(version)
    ELSE <<>>

\* the version strings of the model: the ASA forms maj-min-maint and
\* maj-min-maint-rebuild, the IOS-XE forms maj.rel.rebuild with and without
\* more after it, and strings of other shapes
Join(parts, sep) ==
    LET RECURSIVE J(_)
        J(i) == IF i > Len(parts) THEN <<>>
                ELSE IF i = Len(parts) THEN parts[i]
                ELSE parts[i] \o sep \o J(i + 1)
    IN  J(1)

AsaForm(maj, mnr, maint, rebld) ==
    Join(<<maj, mnr, maint>> \o (IF rebld = <<>> THEN <<>> ELSE <<rebld>>), <<"-">>)
IosxeForm(maj, rel, rebld, more) == Join(<<maj, rel, rebld>>, <<".">>) \o more

AsaMajors == {<<"9">>}
AsaMinors == {<<"8">>, <<"1", "2">>}
AsaMaints == {<<"2">>, <<"4">>}
AsaRebuilds == {<<>>, <<"5">>, <<"2", "8">>}
IosxeMajors == {<<"1", "6">>, <<"3">>, <<"0", "3">>}
IosxeRels == {<<"9">>, <<"1", "2">>}
IosxeRebuilds == {<<"3">>, <<"1", "0">>}
IosxeMores == {<<>>, <<"a">>, <<".", "E">>, <<".", "E", ".", "1", "5", "2", "-", "3">>}

Versions ==
    {AsaForm(a, b, c, d) : a \in AsaMajors, b \in AsaMinors, c \in AsaMaints, d \in AsaRebuilds}
    \cup {IosxeForm(a, b, c, d) :
             a \in IosxeMajors, b \in IosxeRels, c \in IosxeRebuilds, d \in IosxeMores}
    \cup {<<>>,
          <<"9", ".", "8", "(", "2", ")">>,
          <<"9", "2", "4", "-", "5">>,
          <<"9", "-", "1", "2", "-", "4", "-", "S">>,
          <<"7", ".", "0", "(", "3", ")", "S", "7", "(", "6", ")">>,
          <<"9", ".", "3", "(", "5", "a", ")">>,
          <<"1", "5", ".", "2", "(", "4", ")", "E", "8">>,
          <<"1", "5", ".", "0", "(", "2", "a", ")", "S", "E">>,
          <<"1", "5", ".", "2", "(", "4", ")">>}

-----------------------------------------------------------------------------
(* CiscoDevice.py: __init__ *)

\* a classification that tests the generic marker before the IOS-XE ones
OsOf_GenericFirst(descr) ==
    IF MarkerIn("Adaptive Security", descr) THEN "ASA"
    ELSE IF MarkerIn("NX-OS", descr) THEN "NX-OS"
    ELSE IF MarkerIn("IOS", descr) THEN "IOS"
    ELSE IF \E m \in {"IOSXE", "IOS-XE", "IOS XE", "LINUX_IOSD", "CAT3K_"} : MarkerIn(m, descr)
    THEN "IOS-XE"
    ELSE None

\* the family, by the order of the tests on the system description; None
\* when no test matches and the constructor raises
OsOf(descr) ==
    IF MarkerIn("Adaptive Security", descr) THEN "ASA"
    ELSE IF MarkerIn("NX-OS", descr) THEN "NX-OS"
    ELSE IF \/ MarkerIn("IOSXE", descr)
            \/ MarkerIn("IOS-XE", descr)
            \/ MarkerIn("IOS XE", descr)
            \/ MarkerIn("LINUX_IOSD", descr)
            \/ MarkerIn("CAT3K_", descr)
    THEN "IOS-XE"
    ELSE IF MarkerIn("IOS", descr) THEN "IOS"
    ELSE None

ShowVersionAsaCmd == Cmd(<<"show version | include Cisco Adaptive">>, "", <<>>)
ShowContextCmd == Cmd(<<"show context | include ^\\*">>, "", <<>>)
ShowVdcCmd == Cmd(<<"show vdc current-vdc">>, "", <<>>)

\* the VDC probe of an NX-OS device: sent when the model is an N7K or N77
NxosVdcRuns ==
    {[sent |-> <<>>, exc |-> ""],
     [sent |-> <<ShowVdcCmd>>, exc |-> ""],
     [sent |-> Failing(<<ShowVdcCmd>>, 1), exc |-> "ChannelError"]}

\* the context probes of an ASA: [sent, exc, multi, admin, name] for every
\* answer the device can give and every call that can raise
AsaContextRuns ==
    LET run(c, e, m, a, n) == [sent |-> c, exc |-> e, multi |-> m, admin |-> a, name |-> n]
    IN  {run(Failing(<<ShowVersionAsaCmd>>, 1), "ChannelError", FALSE, FALSE, None),
         \* no "<context>" in the answer
         run(<<ShowVersionAsaCmd>>, "", FALSE, FALSE, None),
         \* "<context>", then the second probe
         run(Failing(<<ShowVersionAsaCmd, ShowContextCmd>>, 2), "ChannelError", TRUE, FALSE, None),
         \* an empty answer: not the admin context
         run(<<ShowVersionAsaCmd, ShowContextCmd>>, "", TRUE, FALSE, None),
         \* "*admin ...": the admin context
         run(<<ShowVersionAsaCmd, ShowContextCmd>>, "", TRUE, TRUE, "admin")}

\* the attributes as __init__ sets them before it looks at the device
DevDefaults ==
    /\ verinfo = <<>>
    /\ dpc = "new"
    /\ os = None
    /\ asa_multi_context = FALSE
    /\ asa_admin_context = FALSE
    /\ asa_admin_context_name = None
    /\ nxos_aci_mode = FALSE
    /\ in_config_mode = FALSE
    /\ platform = None
    /\ current_system_image = None
    /\ current_system_image_fs = NoFs
    /\ system_fs = NoFs
    /\ system_fs_info = <<>>
    /\ iosxe_boot_mode = None
    /\ iosxe_build = None
    /\ iosxe_sdwan = None
    /\ responses = NoResponses
    /\ dsent = <<>>
    /\ calls = <<>>

\* the version of the devices of DevSpec: "16.9.3a"
DevVersions == {<<"1", "6", ".", "9", ".", "3", "a">>}

DevInit ==
    /\ DeviceSysDescr \in DevDescrs
    /\ DeviceVersion \in DevVersions
    /\ DevDefaults

\* the library's variables when only the job is exercised
DevIdle ==
    /\ DeviceSysDescr = {}
    /\ DeviceVersion = <<>>
    /\ verinfo = <<>>
    /\ dpc = "idle"
    /\ os = None
    /\ asa_multi_context = FALSE
    /\ asa_admin_context = FALSE
    /\ asa_admin_context_name = None
    /\ nxos_aci_mode = FALSE
    /\ in_config_mode = FALSE
    /\ platform = None
    /\ current_system_image = None
    /\ current_system_image_fs = NoFs
    /\ system_fs = NoFs
    /\ system_fs_info = <<>>
    /\ iosxe_boot_mode = None
    /\ iosxe_build = None
    /\ iosxe_sdwan = None
    /\ responses = NoResponses
    /\ dsent = <<>>
    /\ calls = <<>>

\* CiscoDevice(easy): classify the family; on an ASA probe the context
CiscoDeviceInit ==
    /\ dpc = "new"
    /\ os' = OsOf(DeviceSysDescr)
    /\ verinfo' = VerinfoOf(os', DeviceVersion)
    /\ nxos_aci_mode' = (os' = "NX-OS" /\ MarkerIn("aci", DeviceSysDescr))
    /\ IF os' = "ASA"
       THEN \E r \in AsaContextRuns :
              /\ dsent' = dsent \o r.sent
              /\ asa_multi_context' = r.multi
              /\ asa_admin_context' = r.admin
              /\ asa_admin_context_name' = r.name
              /\ dpc' = IF r.exc = "" THEN "ready" ELSE "failed"
       ELSE IF os' = "NX-OS"
       THEN \E r \in NxosVdcRuns :
              /\ dsent' = dsent \o r.sent
              /\ dpc' = IF r.exc = "" THEN "ready" ELSE "failed"
              /\ UNCHANGED <<asa_multi_context, asa_admin_context, asa_admin_context_name>>
       ELSE /\ dpc' = IF os' = None THEN "failed" ELSE "ready"
            /\ UNCHANGED <<dsent, asa_multi_context, asa_admin_context,
                           asa_admin_context_name>>
    /\ UNCHANGED <<DeviceSysDescr, DeviceVersion, in_config_mode, imageVars, fsVars, calls>>
    /\ UNCHANGED jobVars

-----------------------------------------------------------------------------
(* CiscoDevice.py: get_system_image_info *)

\* the attributes get_system_image_info sets, as they are now
ImageAttrs ==
    [fs |-> current_system_image_fs, image |-> current_system_image,
     mode |-> iosxe_boot_mode, build |-> iosxe_build, platform |-> platform,
     sdwan |-> iosxe_sdwan, answers |-> responses]

ChangetoSystemCmd == Cmd(<<"changeto system">>, "", <<>>)
ChangetoContextCmd(name) == Cmd(<<"changeto context ", name>>, "", <<>>)

ImageCmd(family, aci) ==
    IF family = "NX-OS" /\ aci THEN Cmd(<<"show version | grep image">>, "", <<>>)
    ELSE Cmd(<<"show version | include image">>, "", <<>>)

\* "more <fs>:/<image> | include Platform:|Build:"
MoreManifestCmd(fs, image) ==
    Cmd(<<"more ">> \o fs \o <<":/", image, " | include Platform:|Build:">>, "", <<>>)
RpBaseCmd == Cmd(<<"more flash:/packages.conf", " | include rp_base.*\\.pkg">>, "", <<>>)
OperatingModeCmd == Cmd(<<"show version | include operating">>, "", <<>>)

\* a method that goes on in any context
ImageInfoRefused_Never(family, multi, admin) == FALSE

\* a multi-context ASA that is not the admin context is refused
ImageInfoRefused(family, multi, admin) == family = "ASA" /\ multi /\ ~admin

\* the platform pattern of a BUNDLE image: the name up to the first "-",
\* "_" or "."
PlatformOf(image) ==
    IF image = "c3560cx-universalk9.bin" THEN "c3560cx"
    ELSE IF image = "isr4300-ucmk9.bin" THEN "isr4300"
    ELSE "packages"

\* image.startswith(platform + "-ucmk9.")
UcmImage(image, plat) == image = "isr4300-ucmk9.bin" /\ plat = "isr4300"

\* the platform begins with one of the SD-WAN families
SdwanCapable(plat) == plat = "isr4300"

\* the operating mode read from the answer: re.match anchors the pattern at
\* the first character of the answer
SdwanMode(old, answer) ==
    IF answer = "operating mode: Controller-Managed" THEN "managed" ELSE old

\* the last part of the method: the SD-WAN mode of an IOS-XE device
SdwanRuns(a, cmds, family) ==
    IF family # "IOS-XE" THEN {Return(cmds, a)}
    ELSE IF a.platform = None THEN {Raise(cmds, "TypeError", a)}
    ELSE LET a1 == IF UcmImage(a.image, a.platform) THEN [a EXCEPT !.sdwan = "unknown"]
                   ELSE a
         IN  IF SdwanCapable(a1.platform)
             THEN {Raise(cmds \o Failing(<<OperatingModeCmd>>, 1), "ChannelError", a1)}
                  \cup {Return(cmds \o <<OperatingModeCmd>>,
                               [a1 EXCEPT !.sdwan = SdwanMode(a1.sdwan, answer)]) :
                           answer \in SdwanResponses}
             ELSE {Return(cmds, a1)}

\* the platform: bldplat is the manifest read in INSTALL mode, rp_base the
\* fallback manifest, bound only when the fallback command was sent
PlatformRuns(a, cmds, family, aci, bldplat, rpBound, rp_base) ==
    IF family = "ASA" THEN SdwanRuns([a EXCEPT !.platform = "asa"], cmds, family)
    ELSE IF family = "NX-OS" /\ aci
    THEN \* the pattern is applied to current_system_image, which this mode
         \* never sets; no image of Images carries the "aci-" prefix
         IF a.image = None THEN {Raise(cmds, "TypeError", a)}
         ELSE {Raise(cmds, "AttributeError", a)}
    ELSE IF a.mode = "INSTALL"
    THEN IF bldplat.plat
         THEN SdwanRuns([a EXCEPT !.platform = "cat9k"], cmds, family)
         ELSE IF ~rpBound THEN {Raise(cmds, "UnboundLocalError", a)}
         ELSE IF rp_base.plat
         THEN SdwanRuns([a EXCEPT !.platform = "cat9k"], cmds, family)
         ELSE SdwanRuns(a, cmds, family)
    ELSE SdwanRuns([a EXCEPT !.platform = PlatformOf(a.image)], cmds, family)

\* INSTALL mode: the build from the manifest, or from the fallback manifest
InstallRuns(a, cmds, family) ==
    LET more == MoreManifestCmd(a.fs, a.image)
        nobld == [build |-> FALSE, plat |-> FALSE]
    IN  {Raise(cmds \o Failing(<<more>>, 1), "ChannelError", a)}
        \cup UNION {
            LET ab == [a EXCEPT !.answers.bldplat = <<bldplat>>]
            IN
            IF bldplat.build
            THEN PlatformRuns([ab EXCEPT !.build = "build"], cmds \o <<more>>, family,
                              FALSE, bldplat, FALSE, nobld)
            ELSE {Raise(cmds \o <<more>> \o Failing(<<RpBaseCmd>>, 1), "ChannelError", ab)}
                 \cup UNION {
                     LET ar == [ab EXCEPT !.answers.rp_base = <<rp_base>>]
                         a1 == IF rp_base.build THEN [ar EXCEPT !.build = "build"] ELSE ar
                     IN  IF a1.build = None
                         THEN {Raise(cmds \o <<more, RpBaseCmd>>, "TypeError", a1)}
                         ELSE PlatformRuns(a1, cmds \o <<more, RpBaseCmd>>, family,
                                           FALSE, bldplat, TRUE, rp_base)
                     : rp_base \in Manifests}
            : bldplat \in Manifests}

\* the method from the parsing of the answer on
ParseImageRuns(resp, a0, cmds, family, aci) ==
    LET nobld == [build |-> FALSE, plat |-> FALSE]
        a == [a0 EXCEPT !.answers = Responses(<<resp>>, <<>>, <<>>)]
    IN  IF resp.fs = NoMatchFs THEN {Raise(cmds, "AttributeError", a)}
        ELSE LET a1 == [a EXCEPT !.fs = resp.fs]
             IN  IF family = "NX-OS" /\ aci
                 THEN PlatformRuns(a1, cmds, family, aci, nobld, FALSE, nobld)
                 ELSE IF resp.image = NoMatch THEN {Raise(cmds, "AttributeError", a1)}
                 ELSE LET a2 == [a1 EXCEPT !.image = resp.image]
                      IN  IF family = "NX-OS"
                          THEN PlatformRuns(a2, cmds, family, aci, nobld, FALSE, nobld)
                          ELSE IF EndsWithConf(a2.image)
                          THEN InstallRuns([a2 EXCEPT !.mode = "INSTALL"], cmds, family)
                          ELSE PlatformRuns([a2 EXCEPT !.mode = "BUNDLE"], cmds, family,
                                            aci, nobld, FALSE, nobld)

\* every way a call of get_system_image_info can go
ImageInfoRuns ==
    IF ImageInfoRefused(os, asa_multi_context, asa_admin_context)
    THEN {Raise(<<>>, "Exception", [ImageAttrs EXCEPT !.answers = NoResponses])}
    ELSE LET pre == IF os = "ASA" /\ asa_multi_context THEN <<ChangetoSystemCmd>> ELSE <<>>
             post == IF asa_admin_context THEN <<ChangetoContextCmd(asa_admin_context_name)>>
                     ELSE <<>>
             cmds == pre \o <<ImageCmd(os, nxos_aci_mode)>> \o post
         IN  {Raise(Failing(cmds, k), "ChannelError",
                    [ImageAttrs EXCEPT !.answers = NoResponses]) : k \in 1..Len(cmds)}
             \cup UNION {ParseImageRuns(resp, ImageAttrs, cmds, os, nxos_aci_mode) :
                            resp \in ImageResponses}

Called(op, r) == calls' = Append(calls, [op |-> op, res |-> r.exc])

GetSystemImageInfo ==
    /\ dpc = "ready"
    /\ Len(calls) < MaxCalls
    /\ \E r \in ImageInfoRuns :
          /\ dsent' = dsent \o r.sent
          /\ current_system_image_fs' = r.attrs.fs
          /\ current_system_image' = r.attrs.image
          /\ iosxe_boot_mode' = r.attrs.mode
          /\ iosxe_build' = r.attrs.build
          /\ platform' = r.attrs.platform
          /\ iosxe_sdwan' = r.attrs.sdwan
          /\ responses' = r.attrs.answers
          /\ Called("get_system_image_info", r)
    /\ UNCHANGED <<DeviceSysDescr, DeviceVersion, dpc, ctxVars, in_config_mode, fsVars>>
    /\ UNCHANGED jobVars

-----------------------------------------------------------------------------
(* CiscoDevice.py: get_system_fs_info *)

FsAttrs == [system_fs |-> system_fs, info |-> system_fs_info]

\* "dir <fs>: | include free"
DirFreeCmd(fs) == Cmd(<<"dir ">> \o fs \o <<": | include free">>, "", <<>>)
ShowFileSystemCmd == Cmd(<<"show file system">>, "", <<>>)

\* a method without the safety net
FsInfoUninitialized_Never(fs) == FALSE

\* the safety net: the boot image's file system is not known
FsInfoUninitialized(fs) == fs = NoFs

\* the loop over the rows: a row with a free-bytes figure whose name holds
\* the default file system's or the image's is stored under the next index
RECURSIVE CollectFs(_, _, _, _, _)
CollectFs(rows, default, image_fs, fs_index, info) ==
    IF rows = <<>> THEN info
    ELSE LET row == Head(rows)
         IN  IF row.free # "-"
                  /\ (Contains(row.name, default) \/ Contains(row.name, image_fs))
             THEN CollectFs(Tail(rows), default, image_fs, fs_index + 1,
                            [i \in DOMAIN info \cup {fs_index + 1} |->
                                IF i = fs_index + 1
                                THEN [fs |-> row.name, free |-> row.free]
                                ELSE info[i]])
             ELSE CollectFs(Tail(rows), default, image_fs, fs_index, info)

\* the rows carrying the default marker
StarRows(table) == SelectSeq(table, LAMBDA row : row.star)

\* the method from the parsing of the file system table on
ParseFsRuns(table, a, cmds, image_fs) ==
    IF StarRows(table) = <<>> THEN {Raise(cmds, "AttributeError", a)}
    ELSE LET default == Head(StarRows(table)).name
         IN  {Return(cmds, [system_fs |-> default,
                            info |-> CollectFs(table, default, image_fs, 0, a.info)])}

\* every way a call of get_system_fs_info can go
FsInfoRuns ==
    IF FsInfoUninitialized(current_system_image_fs)
    THEN {Raise(<<>>, "TypeError", FsAttrs)}
    ELSE IF os = "NX-OS"
    THEN LET dir == DirFreeCmd(current_system_image_fs)
         IN  {Raise(Failing(<<dir>>, 1), "ChannelError", FsAttrs),
              \* no "bytes free" in the answer
              Raise(<<dir>>, "AttributeError", FsAttrs),
              Return(<<dir>>, [system_fs |-> current_system_image_fs,
                               info |-> [i \in {0} |->
                                   [fs |-> current_system_image_fs, free |-> "50"]]])}
    ELSE LET pre == IF asa_multi_context /\ asa_admin_context THEN <<ChangetoSystemCmd>>
                    ELSE <<>>
             post == IF asa_admin_context THEN <<ChangetoContextCmd(asa_admin_context_name)>>
                     ELSE <<>>
             cmds == pre \o <<ShowFileSystemCmd>> \o post
         IN  {Raise(Failing(cmds, k), "ChannelError", FsAttrs) : k \in 1..Len(cmds)}
             \cup UNION {ParseFsRuns(table, FsAttrs, cmds, current_system_image_fs) :
                            table \in FsTables}

GetSystemFsInfo ==
    /\ dpc = "ready"
    /\ Len(calls) < MaxCalls
    /\ \E r \in FsInfoRuns :
          /\ dsent' = dsent \o r.sent
          /\ system_fs' = r.attrs.system_fs
          /\ system_fs_info' = r.attrs.info
          /\ Called("get_system_fs_info", r)
    /\ UNCHANGED <<DeviceSysDescr, DeviceVersion, dpc, ctxVars, in_config_mode, imageVars>>
    /\ UNCHANGED jobVars

-----------------------------------------------------------------------------
(* CiscoDevice.py: enter_global_config, exit_global_config *)

EnableCmd == Cmd(<<"enable">>, "", <<>>)
ConfigureTerminalCmd == Cmd(<<"configure terminal">>, "", <<>>)
EndCmd == Cmd(<<"end">>, "", <<>>)
WriteMemoryCmd == Cmd(<<"write memory">>, "", <<>>)
CopyRunStartCmd == Cmd(<<"copy running-config startup-config\r\r\r">>, "", <<>>)

\* an enter_global_config that forgets to set the flag
EnterGlobalConfigRuns_NoFlag(flag) ==
    LET cmds == <<EnableCmd, ConfigureTerminalCmd>>
    IN  {Raise(Failing(cmds, k), "ChannelError", flag) : k \in 1..2}
        \cup {Return(cmds, flag)}

\* every way a call of enter_global_config can go, with the flag after it
EnterGlobalConfigRuns(flag) ==
    LET cmds == <<EnableCmd, ConfigureTerminalCmd>>
    IN  {Raise(Failing(cmds, k), "ChannelError", flag) : k \in 1..2}
        \cup {Return(cmds, TRUE)}

\* every way a call of exit_global_config(commit_config) can go
ExitGlobalConfigRuns(flag, commit_config, family) ==
    LET save == IF family = "ASA" THEN WriteMemoryCmd ELSE CopyRunStartCmd
    IN  {Raise(Failing(<<EndCmd>>, 1), "ChannelError", flag)}
        \cup (IF commit_config
               THEN {Raise(<<EndCmd>> \o Failing(<<save>>, 1), "ChannelError", FALSE),
                     Return(<<EndCmd, save>>, FALSE)}
               ELSE {Return(<<EndCmd>>, FALSE)})

EnterGlobalConfig ==
    /\ dpc = "ready"
    /\ Len(calls) < MaxCalls
    /\ \E r \in EnterGlobalConfigRuns(in_config_mode) :
          /\ dsent' = dsent \o r.sent
          /\ in_config_mode' = r.attrs
          /\ Called("enter_global_config", r)
    /\ UNCHANGED <<DeviceSysDescr, DeviceVersion, dpc, ctxVars, imageVars, fsVars>>
    /\ UNCHANGED jobVars

ExitGlobalConfig ==
    /\ dpc = "ready"
    /\ Len(calls) < MaxCalls
    /\ \E commit_config \in BOOLEAN :
          \E r \in ExitGlobalConfigRuns(in_config_mode, commit_config, os) :
            /\ dsent' = dsent \o r.sent
            /\ in_config_mode' = r.attrs
            /\ Called("exit_global_config", r)
    /\ UNCHANGED <<DeviceSysDescr, DeviceVersion, dpc, ctxVars, imageVars, fsVars>>
    /\ UNCHANGED jobVars

-----------------------------------------------------------------------------
(* CiscoDevice.py: get_active_interfaces, get_relay_interfaces *)

\* the show command of a family
DevActiveIntfsCmd(family) ==
    IF family = "ASA" THEN Cmd(<<"show ", "int ip br | ex ^Interface|Internal">>, "", <<>>)
    ELSE IF family = "NX-OS"
    THEN Cmd(<<"show ", "ip int br | ex \"(^$|Interface|down)\"">>, "", <<>>)
    ELSE Cmd(<<"show ", "ip int br | ex (Proto|unassig|down|Any|NVI)">>, "", <<>>)

\* "show running-config interface <intf_id>"
ShowRunningConfigCmd(intf) == Cmd(<<"show running-config interface ">>, intf, <<>>)

\* the keyword helper_re looks for on a line
HelperOf(family) ==
    IF family = "ASA" THEN "dhcprelay server "
    ELSE IF family = "NX-OS" THEN "ip dhcp relay address "
    ELSE "ip helper-address "

\* the relays helper_re finds on the lines of an answer, in line order
HelperList(lines, family) ==
    LET hits == SelectSeq(lines, LAMBDA l : l.kw = HelperOf(family))
    IN  [i \in 1..Len(hits) |-> hits[i].addr]

\* a loop that stores every interface, with or without relays
RelayInterfacesOf_StoreEmpty(intfs, cfg, family, acc) ==
    acc \o [i \in 1..Len(intfs) |->
               [name |-> intfs[i], relays |-> HelperList(cfg[intfs[i]], family)]]

\* the loop of get_relay_interfaces over intfs, appending to acc: an entry
\* is stored under the next key when the relay list is not empty
RECURSIVE RelayInterfacesOf(_, _, _, _)
RelayInterfacesOf(intfs, cfg, family, acc) ==
    IF intfs = <<>> THEN acc
    ELSE LET relaylist == HelperList(cfg[Head(intfs)], family)
             next == IF Len(relaylist) > 0
                     THEN Append(acc, [name |-> Head(intfs), relays |-> relaylist])
                     ELSE acc
         IN  RelayInterfacesOf(Tail(intfs), cfg, family, next)

\* every way a call of get_active_interfaces can go, with active_intfs after
ActiveInterfacesRuns ==
    {Raise(Failing(<<DevActiveIntfsCmd(os)>>, 1), "ChannelError", active_intfs),
     Return(<<DevActiveIntfsCmd(os)>>, upIntfs)}

\* every way a call of get_relay_interfaces can go, with relay_intfs after
RelayInterfacesRuns ==
    IF active_intfs = <<>> THEN {Raise(<<>>, "TypeError", relay_intfs)}
    ELSE LET cmds == [i \in 1..Len(active_intfs) |-> ShowRunningConfigCmd(active_intfs[i])]
         IN  {Raise(Failing(cmds, k), "ChannelError",
                    RelayInterfacesOf(SubSeq(active_intfs, 1, k - 1), runcfg, os, relay_intfs)) :
                 k \in 1..Len(cmds)}
             \cup {Return(cmds, RelayInterfacesOf(active_intfs, runcfg, os, relay_intfs))}

GetActiveInterfaces ==
    /\ dpc = "ready"
    /\ Len(calls) < MaxCalls
    /\ \E r \in ActiveInterfacesRuns :
          /\ dsent' = dsent \o r.sent
          /\ active_intfs' = r.attrs
          /\ Called("get_active_interfaces", r)
    /\ UNCHANGED <<DeviceSysDescr, DeviceVersion, dpc, ctxVars, in_config_mode, imageVars, fsVars>>
    /\ UNCHANGED <<sysDescr, dry_run, relay_list_key, upIntfs, runcfg, pc, os_type,
                   relay_intfs, relay_list, auth_relays, bad_relays, idx, sent,
                   logged, lookups, status>>

GetRelayInterfaces ==
    /\ dpc = "ready"
    /\ Len(calls) < MaxCalls
    /\ \E r \in RelayInterfacesRuns :
          /\ dsent' = dsent \o r.sent
          /\ relay_intfs' = r.attrs
          /\ Called("get_relay_interfaces", r)
    /\ UNCHANGED <<DeviceSysDescr, DeviceVersion, dpc, ctxVars, in_config_mode, imageVars, fsVars>>
    /\ UNCHANGED <<sysDescr, dry_run, relay_list_key, upIntfs, runcfg, pc, os_type,
                   active_intfs, relay_list, auth_relays, bad_relays, idx, sent,
                   logged, lookups, status>>

\* the scan of one device, by either class: TargetDevice's constructor, or
\* CiscoDevice's constructor and calls of its two scanning methods
ScanNext ==
    \/ dpc = "new" /\ Construct
    \/ pc = "new" /\ CiscoDeviceInit
    \/ pc = "new" /\ GetActiveInterfaces
    \/ pc = "new" /\ GetRelayInterfaces

DevNext ==
    \/ CiscoDeviceInit
    \/ GetSystemImageInfo
    \/ GetSystemFsInfo
    \/ EnterGlobalConfig
    \/ ExitGlobalConfig

-----------------------------------------------------------------------------
(* Specifications *)

Init == JobInit /\ DevIdle

Next == JobNext

Spec == Init /\ [][Next]_vars

DevSpecInit == JobIdle /\ DevInit

DevSpec == DevSpecInit /\ [][DevNext]_vars

\* one device in front of both classes
ScanInit ==
    /\ JobInit
    /\ dry_run = "on"
    /\ relay_list_key = DefaultKey
    /\ DevInit
    /\ DeviceSysDescr = sysDescr

ScanSpec == ScanInit /\ [][ScanNext]_vars

\* the construction of a CiscoDevice for every version string of the model
VerDescrs == {{"Adaptive Security"}, {"NX-OS"}, {"IOS-XE"}, {"IOS"}, {}}

VerInit ==
    /\ JobIdle
    /\ DeviceSysDescr \in VerDescrs
    /\ DeviceVersion \in Versions
    /\ DevDefaults

VerNext == CiscoDeviceInit

VerSpec == VerInit /\ [][VerNext]_vars

-----------------------------------------------------------------------------
(* Reading the command stream of the job *)

IsShow(c) == c.text[1] \in {"show ", "show run interface "}
IsConfigure(c) == c.text = <<"configure terminal">>
IsEnd(c) == c.text = <<"end">>
IsSave(c) == c.text[1] = "copy running-config startup-config\r\r"
IsInterface(c) == c.text = <<"interface ">>
IsRemoval(c) == c.text[1] = "no "
IsAddition(c) == Len(c.text) = 2 /\ c.text[2] = " "
IsMutating(c) ==
    IsConfigure(c) \/ IsInterface(c) \/ IsRemoval(c) \/ IsAddition(c) \/ IsEnd(c) \/ IsSave(c)

\* the commands the loop issued: printed by a dry run, sent otherwise
Issued == IF dry_run = "on" THEN logged ELSE sent

\* the pass of the loop a command of the stream belongs to: the number of
\* interface commands up to it
PassOf(stream, i) == Cardinality({j \in 1..i : IsInterface(stream[j])})

RemovedIn(stream, k) ==
    {stream[i].addr : i \in {j \in DOMAIN stream : PassOf(stream, j) = k /\ IsRemoval(stream[j])}}

AddedIn(stream, k) ==
    {stream[i].addr : i \in {j \in DOMAIN stream : PassOf(stream, j) = k /\ IsAddition(stream[j])}}

\* passes of the loop that ran to their end
CompletedPasses == IF idx = 0 THEN 0 ELSE idx - 1

Configured(k) == Range(relay_intfs[k].relays)
Authorized == Range(auth_relays)

-----------------------------------------------------------------------------
(* Claims about the job (specification Spec) *)

\* C1: with the dry-run switch on, nothing but the show commands of the
\* modelling phase is ever sent; no configure, interface, removal, addition,
\* end or save command reaches the Command Channel.
C1_DryRunSendsOnlyShow ==
    dry_run = "on" =>
        \A i \in DOMAIN sent : IsShow(sent[i]) /\ ~IsMutating(sent[i])

\* a dry run that finished over two interfaces and printed a removal
C1_Witness ==
    /\ dry_run = "on"
    /\ status = "exit0"
    /\ Len(relay_intfs) = 2
    /\ \E i \in DOMAIN logged : IsRemoval(logged[i])
    /\ \E i \in DOMAIN sent : IsShow(sent[i])

C3_AuthorizedNeverRemoved ==
    \A stream \in {sent, logged} :
        \A i \in DOMAIN stream :
            IsRemoval(stream[i]) =>
                ~(/\ stream[i].addr \in Configured(PassOf(stream, i))
                  /\ stream[i].addr \in Authorized)

\* a finished run over an interface that has an authorized relay configured
\* twice, and over one that had a relay removed
C3_Witness ==
    /\ status = "exit0"
    /\ dry_run = "off"
    /\ \E k \in 1..CompletedPasses :
          /\ Len(relay_intfs[k].relays) = 2
          /\ Configured(k) \subseteq Authorized
          /\ Cardinality(Configured(k)) = 1
    /\ \E i \in DOMAIN sent : IsRemoval(sent[i])

\* C4: when the modelling phase ends with relay_intfs empty, the job ends as
\* a success, the List Store is never asked and no configuration command is
\* sent, whatever the key and the dry-run switch are.
C4_EarlyExit ==
    (pc \in {"constructed", "done"} /\ status # "raised" /\ Len(relay_intfs) = 0) =>
        /\ pc = "done" => status = "exit0"
        /\ lookups = 0
        /\ relay_list = Unbound
        /\ \A i \in DOMAIN sent : ~IsMutating(sent[i])

\* an early exit on a device with active interfaces, with a real key and the
\* dry run off
C4_Witness ==
    /\ pc = "done"
    /\ status = "exit0"
    /\ Len(relay_intfs) = 0
    /\ Len(active_intfs) = 2
    /\ relay_list_key # DefaultKey
    /\ dry_run = "off"

\* C5: with a relay interface present, a default key or a NOTFOUND answer
\* ends the job with an error, and nothing but show commands was sent; an
\* error exit happens for no other reason.
C5_RequiredKey ==
    /\ (pc = "done" /\ status # "raised" /\ Len(relay_intfs) # 0
            /\ relay_list_key = DefaultKey) =>
           (status = "exit1" /\ lookups = 0)
    /\ relay_list = NOTFOUND => (pc = "done" /\ status = "exit1")
    /\ status = "exit1" =>
           /\ Len(relay_intfs) # 0
           /\ relay_list_key = DefaultKey \/ relay_list = NOTFOUND
           /\ \A i \in DOMAIN sent : ~IsMutating(sent[i])

\* the List Store did not know the key of a job with the dry run off
C5_Witness ==
    /\ status = "exit1"
    /\ relay_list = NOTFOUND
    /\ dry_run = "off"
    /\ Len(relay_intfs) = 2

-----------------------------------------------------------------------------
(* Claims about the library (specification DevSpec) *)

LastCall == calls[Len(calls)]

NonAdminContext == os = "ASA" /\ asa_multi_context /\ ~asa_admin_context
\* the configure and end commands that went through, in order
ConfigStream ==
    SelectSeq(dsent, LAMBDA c : ~c.raised /\ c.text \in {<<"configure terminal">>, <<"end">>})

Count(seq, P(_)) == Cardinality({i \in DOMAIN seq : P(seq[i])})

\* C6: every "changeto system" that went through is followed, before the
\* method is left, by a "changeto context <admin context>", also when the
\* command between the two raises.
C6_ContextRestored ==
    \A i \in DOMAIN dsent :
        (dsent[i].text = <<"changeto system">> /\ ~dsent[i].raised) =>
            \E j \in (i + 1)..Len(dsent) :
                dsent[j].text = <<"changeto context ", asa_admin_context_name>>

\* C7: a get_system_image_info call on a multi-context ASA that is not the
\* admin context raises and hands no command to the channel.
C7_NonAdminRefused ==
    [][(/\ Len(calls') = Len(calls) + 1
        /\ calls'[Len(calls')].op = "get_system_image_info"
        /\ NonAdminContext)
       => (calls'[Len(calls')].res = "Exception" /\ dsent' = dsent)]_vars

\* the method was called in a non-admin context: only the two probes of the
\* construction were ever sent
C7_Witness ==
    /\ NonAdminContext
    /\ calls # <<>>
    /\ LastCall.op = "get_system_image_info"
    /\ LastCall.res = "Exception"
    /\ dsent = <<ShowVersionAsaCmd, ShowContextCmd>>

\* C8: in a non-admin context of a multi-context ASA no file system listing
\* is ever sent, whatever inspector calls are made in whatever order: the
\* boot image's file system is never set, so every get_system_fs_info call
\* stops at its safety net.
C8_NoFsListingFromNonAdmin ==
    NonAdminContext =>
        /\ \A i \in DOMAIN dsent :
               dsent[i].text # <<"show file system">> /\ dsent[i].text[1] # "dir "
        /\ current_system_image_fs = NoFs
        /\ \A i \in DOMAIN calls :
               calls[i].op = "get_system_fs_info" => calls[i].res = "TypeError"

\* image inspection, then file system inspection twice, in a non-admin context
C8_Witness ==
    /\ NonAdminContext
    /\ Len(calls) = 3
    /\ calls[1].op = "get_system_image_info"
    /\ calls[2].op = "get_system_fs_info"
    /\ calls[3].op = "get_system_fs_info"

C10_IndexZeroIsBootFs ==
    (calls # <<>> /\ LastCall.op = "get_system_fs_info" /\ LastCall.res = "") =>
        /\ 0 \in DOMAIN system_fs_info
        /\ system_fs_info[0].fs = current_system_image_fs

-----------------------------------------------------------------------------
(* Claims about the job, continued (specification Spec) *)

\* the commands of the loop in the stream: interface, removal, addition
LoopStream(stream) ==
    SelectSeq(stream, LAMBDA c : IsInterface(c) \/ IsRemoval(c) \/ IsAddition(c))

\* the commands of pass k of the loop, in the order they were sent
SegmentOf(stream, k) ==
    LET loop == LoopStream(stream)
        S == {j \in DOMAIN loop : PassOf(loop, j) = k}
    IN  IF S = {} THEN <<>>
        ELSE SubSeq(loop, CHOOSE a \in S : \A b \in S : a <= b,
                          CHOOSE a \in S : \A b \in S : a >= b)

\* the configured relays of entry k that no entry of the list equals
Unauthorized(k) ==
    SelectSeq(relay_intfs[k].relays,
              LAMBDA r : \A i \in DOMAIN auth_relays : auth_relays[i] # r)

\* C11: with the dry run off, the commands sent for the k-th entry of
\* relay_intfs are one "interface <name>", then a removal for each
\* configured relay outside the authorized list, in configured order and
\* once per occurrence, then an addition for each entry of the authorized
\* list in list order, configured or not; no removal follows an addition of
\* the same interface.
C11_CommandOrder ==
    dry_run = "off" =>
        /\ \A k \in 1..CompletedPasses :
              LET seg == SegmentOf(sent, k)
                  bad == Unauthorized(k)
                  nb == Len(bad)
              IN  /\ Len(seg) = 1 + nb + Len(auth_relays)
                  /\ seg[1] = [text |-> <<"interface ">>, intf |-> relay_intfs[k].name,
                               addr |-> <<>>, raised |-> FALSE]
                  /\ \A i \in 1..nb :
                        /\ IsRemoval(seg[1 + i])
                        /\ seg[1 + i].addr = bad[i]
                        /\ ~seg[1 + i].raised
                  /\ \A i \in 1..Len(auth_relays) :
                        /\ IsAddition(seg[1 + nb + i])
                        /\ seg[1 + nb + i].addr = auth_relays[i]
                        /\ ~seg[1 + nb + i].raised
        /\ LET loop == LoopStream(sent)
           IN  \A i, j \in DOMAIN loop :
                  (i < j /\ IsAddition(loop[i]) /\ IsRemoval(loop[j])) =>
                      PassOf(loop, i) < PassOf(loop, j)

\* a finished run with the dry run off and a list of two entries, over an
\* interface with the same unauthorized relay twice and an interface with
\* one unauthorized and one authorized relay
C11_Witness ==
    /\ dry_run = "off"
    /\ status = "exit0"
    /\ Len(relay_intfs) = 2
    /\ Len(auth_relays) = 2
    /\ \E k \in 1..2 : Len(Unauthorized(k)) = 2 /\ Cardinality(Configured(k)) = 1
    /\ \E k \in 1..2 : Len(Unauthorized(k)) = 1 /\ Configured(k) \cap Authorized # {}

\* the save commands: the ASA idiom, and the copy with its confirmation
\* keystrokes
IsWriteMemory(c) == c.text = <<"write memory">>
IsCopySave(c) ==
    c.text[1] \in {"copy running-config startup-config\r\r",
                   "copy running-config startup-config\r\r\r"}

\* what is sent after the last command of the loop
AfterLoop ==
    LET L == {i \in DOMAIN sent :
                 IsInterface(sent[i]) \/ IsRemoval(sent[i]) \/ IsAddition(sent[i])}
        last == CHOOSE a \in L : \A b \in L : a >= b
    IN  IF L = {} THEN <<>> ELSE SubSeq(sent, last + 1, Len(sent))

\* C12: with the dry run off, a job that ends as a success has sent, after
\* the commands of the last interface, "end" once and then one save command
\* (main's commit flag is true): "write memory" on ASA, "copy running-config
\* startup-config" with confirmation keystrokes on every other family. No
\* save command is sent before "end".
C12_ExitAndCommit ==
    /\ (dry_run = "off" /\ status = "exit0" /\ Len(relay_intfs) # 0) =>
          /\ Len(AfterLoop) = 2
          /\ IsEnd(AfterLoop[1])
          /\ IF os_type = "ASA" THEN IsWriteMemory(AfterLoop[2])
                                ELSE IsCopySave(AfterLoop[2])
          /\ Cardinality({i \in DOMAIN sent : IsEnd(sent[i])}) = 1
          /\ Cardinality({i \in DOMAIN sent :
                             IsWriteMemory(sent[i]) \/ IsCopySave(sent[i])}) = 1
    /\ \A i \in DOMAIN sent :
          (IsWriteMemory(sent[i]) \/ IsCopySave(sent[i])) =>
              \E j \in 1..(i - 1) : IsEnd(sent[j]) /\ ~sent[j].raised

\* what a second run of the job would model on the device as it is now, and
\* the removal list it would compute for its k-th entry from the same cell
SecondRunRelayIntfs == ProcessRelayInterfaces(upIntfs, runcfg, OsTypeOf(sysDescr), <<>>)
SecondRunBadRelays(k) == BadRelays(SecondRunRelayIntfs[k].relays, Split(relay_list))

\* C13: after a complete reconciliation with the dry run off, on a device
\* that deletes a removed relay from the selected interface and adds an
\* added one when it is absent, a second modelling and reconciliation with
\* the same authorized list finds nothing to remove on any interface.
C13_Idempotence ==
    (dry_run = "off" /\ status = "exit0" /\ Len(relay_intfs) # 0) =>
        \A k \in DOMAIN SecondRunRelayIntfs : SecondRunBadRelays(k) = <<>>

\* a complete run that removed a relay on one interface and left the device
\* with relays on two interfaces for the second run to model
C13_Witness ==
    /\ dry_run = "off"
    /\ status = "exit0"
    /\ \E i \in DOMAIN sent : IsRemoval(sent[i])
    /\ Len(SecondRunRelayIntfs) = 2
    /\ SecondRunRelayIntfs[1].name # SecondRunRelayIntfs[2].name
    /\ SecondRunRelayIntfs[1].relays # relay_intfs[1].relays

\* the relays the device has on an interface now
DeviceRelays(intf) == Range(RelayList(runcfg[intf], os_type))

\* the entries of the authorized list that are addresses
AuthorizedAddrs == {a \in Authorized : ValidAddr(a)}

\* the interfaces that have an entry in relay_intfs
RelayIntfNames == {relay_intfs[k].name : k \in DOMAIN relay_intfs}

CompleteRun == dry_run = "off" /\ status = "exit0" /\ Len(relay_intfs) # 0

\* C14 as stated: after a complete run with the dry run off, every active
\* interface has every authorized address configured, the interfaces that
\* had no relay before the run included.
C14_Original ==
    CompleteRun =>
        \A i \in DOMAIN active_intfs : AuthorizedAddrs \subseteq DeviceRelays(active_intfs[i])

\* C14 amended: after a complete run with the dry run off, every interface
\* that had a relay configured (every entry of relay_intfs) has exactly the
\* authorized addresses configured; an active interface that had no relay
\* is not an entry, gets no command and still has no relay.
C14_ProvisioningCoverage ==
    CompleteRun =>
        /\ \A n \in RelayIntfNames : DeviceRelays(n) = AuthorizedAddrs
        /\ \A i \in DOMAIN active_intfs :
              active_intfs[i] \notin RelayIntfNames =>
                  /\ DeviceRelays(active_intfs[i]) = {}
                  /\ \A j \in DOMAIN sent : sent[j].intf = active_intfs[i] => IsShow(sent[j])

\* a complete run over two active interfaces, one with a relay and one
\* without, that added an address the first did not have
C14_Witness ==
    /\ CompleteRun
    /\ Len(active_intfs) = 2
    /\ Len(relay_intfs) = 1
    /\ active_intfs[2] \notin RelayIntfNames
    /\ active_intfs[1] \in RelayIntfNames
    /\ AuthorizedAddrs \ Configured(1) # {}
    /\ Configured(1) \ AuthorizedAddrs # {}

\* a command of the loop over relay_intfs whose send_command call raised
RaisedInLoop(i) ==
    /\ sent[i].raised
    /\ IsInterface(sent[i]) \/ IsRemoval(sent[i]) \/ IsAddition(sent[i])

\* C20: when the send_command call of an interface, removal or addition
\* command of the loop raises, that command is the last one the job sends:
\* nothing more for its interface or for a later one, no "end" and no save
\* command; the loop stays at that interface and the job ends with the
\* exception, never as a success.
C20_FailFast ==
    \A i \in DOMAIN sent :
        RaisedInLoop(i) =>
            /\ i = Len(sent)
            /\ pc = "done"
            /\ status = "raised"
            /\ idx <= Len(relay_intfs)
            /\ \A j \in DOMAIN sent :
                  ~(IsEnd(sent[j]) \/ IsWriteMemory(sent[j]) \/ IsCopySave(sent[j]))

\* with the dry run off and two interfaces to reconcile, the first removal
\* of the first interface raised while additions and a second interface
\* were still to come
C20_Witness ==
    /\ dry_run = "off"
    /\ Len(relay_intfs) = 2
    /\ idx = 1
    /\ auth_relays # <<>>
    /\ sent # <<>>
    /\ RaisedInLoop(Len(sent))
    /\ IsRemoval(sent[Len(sent)])
    /\ status = "raised"

\* C22: whatever the value of the dry-run switch ("on", "off" or anything
\* else), every interface, removal and addition command main sends comes
\* after a "configure terminal" that went through, with no "end" between
\* the two.
C22_MutatingInsideConfigMode ==
    \A i \in DOMAIN sent :
        (IsInterface(sent[i]) \/ IsRemoval(sent[i]) \/ IsAddition(sent[i])) =>
            \E j \in 1..(i - 1) :
                /\ IsConfigure(sent[j])
                /\ ~sent[j].raised
                /\ \A k \in (j + 1)..(i - 1) : ~IsEnd(sent[k])

-----------------------------------------------------------------------------
(* Claims about the library, continued (specification DevSpec) *)

\* the families in the order of their tests, and the markers of each
FamilyOrder == <<"ASA", "NX-OS", "IOS-XE", "IOS">>
MarkersOfFamily(f) ==
    IF f = "ASA" THEN {"Adaptive Security"}
    ELSE IF f = "NX-OS" THEN {"NX-OS"}
    ELSE IF f = "IOS-XE" THEN {"IOSXE", "IOS-XE", "IOS XE", "LINUX_IOSD", "CAT3K_"}
    ELSE {"IOS"}

\* the positions in the order of the families whose marker the description has
Matching(descr) ==
    {i \in DOMAIN FamilyOrder : \E m \in MarkersOfFamily(FamilyOrder[i]) : MarkerIn(m, descr)}

ImageInfoAnswered ==
    /\ calls # <<>>
    /\ LastCall.op = "get_system_image_info"
    /\ LastCall.res \notin {"Exception", "ChannelError"}

\* the answers of the last call were well formed: the image answer names a
\* file system and an image, and when the image is a manifest on a device
\* that reads it, the manifest names the build and the platform
WellFormedAnswers ==
    /\ responses.raw_output # <<>>
    /\ LET resp == responses.raw_output[1]
       IN  /\ resp.fs \in ImageFsNames
           /\ resp.image \in Images
           /\ (os # "NX-OS" /\ EndsWithConf(resp.image)) =>
                  responses.bldplat = <<[build |-> TRUE, plat |-> TRUE]>>

\* C18: on every family and sub-mode, a get_system_image_info call whose
\* commands were all answered, and answered well, returns normally with
\* current_system_image, current_system_image_fs and platform set.
C18_ImageInfoPopulates ==
    (ImageInfoAnswered /\ WellFormedAnswers) =>
        /\ LastCall.res = ""
        /\ current_system_image # None
        /\ current_system_image_fs # NoFs
        /\ platform # None

\* the commands a step handed to the channel
NewCmds == SubSeq(dsent', Len(dsent) + 1, Len(dsent'))

\* the step is a get_system_image_info call that read an image name ending
\* in ".conf" on a device that is not NX-OS
InstallCall ==
    /\ Len(calls') = Len(calls) + 1
    /\ calls'[Len(calls')].op = "get_system_image_info"
    /\ os # "NX-OS"
    /\ responses'.raw_output # <<>>
    /\ responses'.raw_output[1].fs \in ImageFsNames
    /\ responses'.raw_output[1].image \in Images
    /\ EndsWithConf(responses'.raw_output[1].image)

\* the manifest was answered and names a build
YieldsBuild(answer) == answer # <<>> /\ answer[1].build

\* C19: a get_system_image_info call that reads a boot image ending in
\* ".conf" sets the boot mode to INSTALL and fetches the manifest; it sends
\* the fallback manifest command exactly when the manifest's answer names no
\* build; when neither answer names a build it fails; when the manifest's
\* answer names a build it goes on through the platform step without
\* failing; and it never returns with boot mode INSTALL and no build.
C19_InstallBuildResolution ==
    [][InstallCall =>
          LET res == calls'[Len(calls')].res
              primary == responses'.bldplat
              fallback == responses'.rp_base
          IN  /\ iosxe_boot_mode' = "INSTALL"
              /\ \E i \in DOMAIN NewCmds : NewCmds[i].text[1] = "more "
              /\ (\E i \in DOMAIN NewCmds : NewCmds[i] = RpBaseCmd \/ NewCmds[i] = [RpBaseCmd EXCEPT !.raised = TRUE])
                     <=> (primary # <<>> /\ ~YieldsBuild(primary))
              /\ (primary # <<>> /\ fallback # <<>>
                      /\ ~YieldsBuild(primary) /\ ~YieldsBuild(fallback)) => res # ""
              /\ YieldsBuild(primary) =>
                     (res \in {"", "ChannelError"} /\ (res = "" => platform' # None))
              /\ (res = "" /\ iosxe_boot_mode' = "INSTALL") => iosxe_build' # None
      ]_vars

-----------------------------------------------------------------------------
(* Claims about the scan (specification ScanSpec) *)

\* the interface has a relay line in its running configuration
HasRelayLine(intf) ==
    \E i \in DOMAIN runcfg[intf] :
        runcfg[intf][i].kw \in {"dhcprelay server ", "ip dhcp relay address ",
                                "ip helper-address "}

\* C16: every entry of relay_intfs has a relay list that is not empty, and
\* names an interface with a relay line; an interface whose running
\* configuration has no relay line has no entry, whichever class scanned
\* the device and however often.
C16_RelayIntfsNonEmpty ==
    /\ \A k \in DOMAIN relay_intfs :
          /\ Len(relay_intfs[k].relays) > 0
          /\ HasRelayLine(relay_intfs[k].name)
    /\ \A n \in IntfNames :
          ~HasRelayLine(n) => \A k \in DOMAIN relay_intfs : relay_intfs[k].name # n

\* get_relay_interfaces returned after the scan of two active interfaces,
\* one with a relay line and one without
C16_Witness ==
    /\ calls # <<>>
    /\ LastCall.op = "get_relay_interfaces"
    /\ LastCall.res = ""
    /\ Len(active_intfs) = 2
    /\ \E i \in 1..2 : ~HasRelayLine(active_intfs[i])
    /\ Len(relay_intfs) = 1

\* C21: relay_intfs holds at most one entry per interface name, after
\* TargetDevice's construction and after any sequence of calls of
\* CiscoDevice's get_active_interfaces and get_relay_interfaces, also when
\* the extraction is called again and when the scan lists a name twice.
C21_OneEntryPerInterface ==
    \A i, j \in DOMAIN relay_intfs :
        relay_intfs[i].name = relay_intfs[j].name => i = j

-----------------------------------------------------------------------------
(* Claims about the version patterns (specification VerSpec) *)

Constructed == dpc \in {"ready", "failed"} /\ os # None

\* the fields of verinfo are all unset
AllUnset == \A f \in DOMAIN verinfo : verinfo[f] = Unset

\* the pattern of the family finds nothing in the version
MatchesNoPattern ==
    LET pat == IF os = "ASA" THEN AsaPattern
               ELSE IF os = "NX-OS" THEN NxosPattern
               ELSE IF os = "IOS-XE" THEN IosxePattern
               ELSE IosPattern
    IN  Search(pat, DeviceVersion) = NoSearchMatch

\* the ASA versions maj-min-maint and maj-min-maint-rebuild give their fields
AsaFormsParsed(rebuilds) ==
    \A a \in AsaMajors, b \in AsaMinors, c \in AsaMaints, d \in rebuilds :
        DeviceVersion = AsaForm(a, b, c, d) =>
            /\ verinfo.maj = <<IntOf(a)>>
            /\ verinfo.min = <<IntOf(b)>>
            /\ verinfo.maint = <<IntOf(c)>>
            /\ verinfo.rebld = IF d = <<>> THEN Unset ELSE <<IntOf(d)>>

\* the IOS-XE versions maj.rel.rebuild, with or without more, give their fields
IosxeFormsParsed(mores) ==
    \A a \in IosxeMajors, b \in IosxeRels, c \in IosxeRebuilds, d \in mores :
        DeviceVersion = IosxeForm(a, b, c, d) =>
            /\ verinfo.maj = <<IntOf(a)>>
            /\ verinfo.rel = <<IntOf(b)>>
            /\ verinfo.rebld = <<IntOf(c)>>
            /\ d = <<>> => verinfo.spcrel = Unset
            /\ (d = <<"a">> /\ IntOf(a) >= 16) => verinfo.spcrel = <<"a">>

\* C17: once a CiscoDevice is constructed, an ASA version maj-min-maint, with
\* or without -rebuild, and an IOS-XE version maj.rel.rebuild, with or without
\* more after it, have given exactly their numeric fields, with rebuild and
\* special release unset when absent; a version no pattern matches has left
\* every field unset and has not made the constructor fail.
C17_VersionParsing ==
    Constructed =>
        /\ os = "ASA" => AsaFormsParsed(AsaRebuilds)
        /\ os = "IOS-XE" => IosxeFormsParsed(IosxeMores)
        /\ MatchesNoPattern =>
              /\ AllUnset
              /\ dpc = "failed" => (dsent # <<>> /\ dsent[Len(dsent)].raised)

====
